---- MODULE Spec2Model ----
(***************************************************************************)
(* Model of app.py: the CSV cleaning and aggregation pipeline              *)
(* (validate_and_clean, build_aggregations) and the in-memory report cache *)
(* (REPORT_CACHE, CACHE_LOCK, _cleanup_cache) used by the two routes       *)
(* index and download_report.                                              *)
(*                                                                         *)
(* Two specifications:                                                     *)
(*   Spec         - concurrent request handlers sharing the cache          *)
(*   SpecPipeline - validate_and_clean followed by build_aggregations on   *)
(*                  every small DataFrame over RowPool and ColumnPool      *)
(***************************************************************************)
EXTENDS Integers, Sequences, FiniteSets, TLC

(***************************************************************************)
(* Bounds of the model                                                     *)
(***************************************************************************)
\* float64 has a 53-bit significand; the model keeps MantBits bits
MantBits == 3
\* rows of an uploaded DataFrame
MaxRows == 3
\* request-handling threads
NumProcs == 2
\* uuid4 values that can be drawn
MaxTokens == 2
\* advances of time.time()
MaxTicks == 2

(***************************************************************************)
(* Cells of a DataFrame.  Every cell is a record [tag, n, s]:              *)
(*   "nan"  - missing value (NaN / NaT / None)                             *)
(*   "num"  - a number n                                                   *)
(*   "str"  - text s, a sequence of one-character strings                  *)
(*   "date" - a Timestamp, n = year*10000 + month*100 + day                *)
(***************************************************************************)
NaN == [tag |-> "nan", n |-> 0, s |-> <<>>]
Num(x) == [tag |-> "num", n |-> x, s |-> <<>>]
Str(chars) == [tag |-> "str", n |-> 0, s |-> chars]
Timestamp(y, m, d) == [tag |-> "date", n |-> y * 10000 + m * 100 + d, s |-> <<>>]

isna(c) == c.tag = "nan"

(***************************************************************************)
(* float64 arithmetic on the non-negative integers, MantBits-bit           *)
(* significand, round to nearest, ties to even                             *)
(***************************************************************************)
RECURSIVE Pow2(_)
Pow2(k) == IF k = 0 THEN 1 ELSE 2 * Pow2(k - 1)

RECURSIVE Ulp(_)
Ulp(x) == IF x < Pow2(MantBits) THEN 1 ELSE 2 * Ulp(x \div 2)

FlNat(x) ==
  LET u == Ulp(x)
      lo == (x \div u) * u
      rem == x - lo
  IN  IF 2 * rem < u THEN lo
      ELSE IF 2 * rem > u THEN lo + u
      ELSE IF (lo \div u) % 2 = 0 THEN lo ELSE lo + u

Fl(x) == IF x < 0 THEN 0 - FlNat(0 - x) ELSE FlNat(x)

FAdd(a, b) == Fl(a + b)
FSub(a, b) == Fl(a - b)
FMul(a, b) == Fl(a * b)

\* Series.sum(): numpy adds the values left to right (fewer than 8 values)
RECURSIVE SeriesSum(_)
SeriesSum(xs) ==
  IF xs = <<>> THEN 0
  ELSE FAdd(SeriesSum(SubSeq(xs, 1, Len(xs) - 1)), xs[Len(xs)])

\* groupby(...).sum(): pandas' group_sum accumulates with Kahan compensation
RECURSIVE KahanState(_)
KahanState(xs) ==
  IF xs = <<>> THEN [sum |-> 0, comp |-> 0]
  ELSE LET st == KahanState(SubSeq(xs, 1, Len(xs) - 1))
           y == FSub(xs[Len(xs)], st.comp)
           t == FAdd(st.sum, y)
       IN  [sum |-> t, comp |-> FSub(FSub(t, st.sum), y)]

GroupSum(xs) == KahanState(xs).sum

(***************************************************************************)
(* Text helpers                                                            *)
(***************************************************************************)
Digits == <<"0", "1", "2", "3", "4", "5", "6", "7", "8", "9">>
IsDigit(ch) == \E i \in 1..10 : Digits[i] = ch
DigitVal(ch) == (CHOOSE i \in 1..10 : Digits[i] = ch) - 1

\* int(text), or -1 when the text is not a run of digits
RECURSIVE ParseNat(_)
ParseNat(chars) ==
  IF chars = <<>> THEN -1
  ELSE IF ~IsDigit(chars[Len(chars)]) THEN -1
  ELSE IF Len(chars) = 1 THEN DigitVal(chars[1])
  ELSE LET hi == ParseNat(SubSeq(chars, 1, Len(chars) - 1))
       IN  IF hi < 0 THEN -1 ELSE hi * 10 + DigitVal(chars[Len(chars)])

\* text.split(sep)
RECURSIVE Split(_, _)
Split(chars, sep) ==
  IF \A i \in 1..Len(chars) : chars[i] # sep THEN <<chars>>
  ELSE LET k == CHOOSE i \in 1..Len(chars) :
                  chars[i] = sep /\ \A j \in 1..(i - 1) : chars[j] # sep
       IN  <<SubSeq(chars, 1, k - 1)>> \o Split(SubSeq(chars, k + 1, Len(chars)), sep)

\* str.strip()
RECURSIVE LStrip(_)
LStrip(chars) ==
  IF chars # <<>> /\ chars[1] = " " THEN LStrip(Tail(chars)) ELSE chars

RECURSIVE RStrip(_)
RStrip(chars) ==
  IF chars # <<>> /\ chars[Len(chars)] = " "
  THEN RStrip(SubSeq(chars, 1, Len(chars) - 1)) ELSE chars

strip(chars) == RStrip(LStrip(chars))

\* str(n) for a natural number
RECURSIVE NatToStr(_)
NatToStr(x) ==
  IF x < 10 THEN <<Digits[x + 1]>> ELSE NatToStr(x \div 10) \o <<Digits[(x % 10) + 1]>>

\* order of characters (code points), restricted to the characters in use
Alphabet == <<" ", "-", "/", "0", "1", "2", "3", "4", "5", "6", "7", "8", "9",
              "A", "B", "G", "W", "a", "n", "x">>
Ord(ch) == CHOOSE i \in 1..Len(Alphabet) : Alphabet[i] = ch

\* a < b for text
RECURSIVE StrLess(_, _)
StrLess(a, b) ==
  IF b = <<>> THEN FALSE
  ELSE IF a = <<>> THEN TRUE
  ELSE IF Ord(a[1]) # Ord(b[1]) THEN Ord(a[1]) < Ord(b[1])
  ELSE StrLess(Tail(a), Tail(b))

\* a <= b for two cells of one column
CellLE(a, b) ==
  IF a.tag = "str" THEN a.s = b.s \/ StrLess(a.s, b.s) ELSE a.n <= b.n

(***************************************************************************)
(* pandas conversions used by validate_and_clean                           *)
(***************************************************************************)
IsLeap(y) == y % 4 = 0 /\ (y % 100 # 0 \/ y % 400 = 0)

DaysInMonth(y, m) ==
  IF m = 2 THEN (IF IsLeap(y) THEN 29 ELSE 28)
  ELSE IF m \in {4, 6, 9, 11} THEN 30 ELSE 31

ValidDate(y, m, d) == y >= 1 /\ m \in 1..12 /\ d >= 1 /\ d <= DaysInMonth(y, m)

\* pd.to_datetime(..., errors="coerce", dayfirst=True) on one cell holding
\* text of the form a/b/yyyy or missing: day first, month first when the
\* day-first reading is no date, NaT when neither is
to_datetime(c) ==
  IF c.tag # "str" THEN NaN
  ELSE LET f == Split(strip(c.s), "/")
       IN  IF Len(f) # 3 THEN NaN
           ELSE LET a == ParseNat(f[1])
                    b == ParseNat(f[2])
                    y == ParseNat(f[3])
                IN  IF a < 0 \/ b < 0 \/ y < 0 THEN NaN
                    ELSE IF ValidDate(y, b, a) THEN Timestamp(y, b, a)
                    ELSE IF ValidDate(y, a, b) THEN Timestamp(y, a, b)
                    ELSE NaN

\* pd.to_numeric(..., errors="coerce") on one cell
to_numeric(c) ==
  IF c.tag = "num" THEN Num(Fl(c.n))
  ELSE IF c.tag # "str" THEN NaN
  ELSE LET t == strip(c.s)
       IN  IF t # <<>> /\ t[1] = "-"
           THEN (IF ParseNat(Tail(t)) < 0 THEN NaN ELSE Num(Fl(0 - ParseNat(Tail(t)))))
           ELSE (IF ParseNat(t) < 0 THEN NaN ELSE Num(Fl(ParseNat(t))))

\* Series.astype(str) on one cell: str(value); str(float("nan")) is "nan"
astype_str(c) ==
  IF c.tag = "str" THEN c
  ELSE IF c.tag = "nan" THEN Str(<<"n", "a", "n">>)
  ELSE IF c.n >= 0 THEN Str(NatToStr(c.n))
  ELSE Str(<<"-">> \o NatToStr(0 - c.n))

\* Series.str.strip() on one cell
str_strip(c) == IF c.tag = "str" THEN Str(strip(c.s)) ELSE c

(***************************************************************************)
(* DataFrames: [columns |-> set of column names,                           *)
(*              rows |-> sequence of functions column name -> cell]        *)
(***************************************************************************)
REQUIRED_COLUMNS == <<"Date", "Product", "Quantity", "Unit Price", "Salesperson">>

SetCol(r, col, v) == [c \in (DOMAIN r) \cup {col} |-> IF c = col THEN v ELSE r[c]]

\* permutations of 1..n
Perms(n) == {f \in [1..n -> 1..n] : \A i, j \in 1..n : f[i] = f[j] => i = j}

\* DataFrame.sort_values(col, ascending=...) with the default kind="quicksort":
\* the rows in order of col, rows with equal keys in an order the sort does not
\* fix.  The set of the orders it can produce.
sort_values(rows, col, ascending) ==
  LET n == Len(rows)
      InOrder(a, b) == IF ascending THEN CellLE(a[col], b[col]) ELSE CellLE(b[col], a[col])
  IN  {[i \in 1..n |-> rows[f[i]]] :
         f \in {g \in Perms(n) : \A i, j \in 1..n : i < j => InOrder(rows[g[i]], rows[g[j]])}}

\* lines 59-67: the five columns coerced, row by row
Coerce(r) ==
  LET r1 == SetCol(r, "Date", to_datetime(r["Date"]))
      r2 == SetCol(r1, "Quantity", to_numeric(r1["Quantity"]))
      r3 == SetCol(r2, "Unit Price", to_numeric(r2["Unit Price"]))
      r4 == SetCol(r3, "Product", str_strip(astype_str(r3["Product"])))
  IN  SetCol(r4, "Salesperson", str_strip(astype_str(r4["Salesperson"])))

\* line 70: dropna(subset=[...]) keeps a row with none of the five missing
NotNaRow(r) ==
  \A i \in 1..Len(REQUIRED_COLUMNS) : ~isna(r[REQUIRED_COLUMNS[i]])

\* line 73
NonNegative(r) == r["Quantity"].n >= 0 /\ r["Unit Price"].n >= 0

\* line 76
WithRevenue(r) == SetCol(r, "Revenue", Num(FMul(r["Quantity"].n, r["Unit Price"].n)))

\* lines 55-76: the frame before the sort, rows in input order
CleanRows(df) ==
  LET coerced == [i \in 1..Len(df.rows) |-> Coerce(df.rows[i])]
      kept == SelectSeq(SelectSeq(coerced, NotNaRow), NonNegative)
  IN  [i \in 1..Len(kept) |-> WithRevenue(kept[i])]

\* mutant: only the first missing column is reported
MissingColumns_First(df) ==
  SubSeq(SelectSeq(REQUIRED_COLUMNS, LAMBDA c : c \notin df.columns), 1, 1)

\* line 50
MissingColumns(df) == SelectSeq(REQUIRED_COLUMNS, LAMBDA c : c \notin df.columns)

\* validate_and_clean(df): the outcomes it can have, each either the
\* ValueError naming the missing columns or the cleaned frame
validate_and_clean(df) ==
  IF MissingColumns(df) # <<>>
  THEN {[error |-> TRUE, missing |-> MissingColumns(df), rows |-> <<>>]}
  ELSE {[error |-> FALSE, missing |-> <<>>, rows |-> out] :
          out \in sort_values(CleanRows(df), "Date", TRUE)}

(***************************************************************************)
(* build_aggregations                                                      *)
(***************************************************************************)
Column(rows, col) == [i \in 1..Len(rows) |-> rows[i][col]]

\* the sequence of the members of a set of cells, ascending (groupby sorts
\* the group keys)
RECURSIVE SortedKeys(_)
SortedKeys(S) ==
  IF S = {} THEN <<>>
  ELSE LET m == CHOOSE x \in S : \A y \in S : CellLE(x, y)
       IN  <<m>> \o SortedKeys(S \ {m})

\* mutant: .last() in place of .sum()
groupby_last(rows, col) ==
  LET keys == SortedKeys({rows[i][col] : i \in {j \in 1..Len(rows) : ~isna(rows[j][col])}})
      Revenues(k) == Column(SelectSeq(rows, LAMBDA r : r[col] = k), "Revenue")
  IN  [g \in 1..Len(keys) |->
         [c \in {col, "Revenue"} |->
            IF c = col THEN keys[g] ELSE Revenues(keys[g])[Len(Revenues(keys[g]))]]]

\* rows.groupby(col, as_index=False)["Revenue"].sum(): one row per key that
\* is not missing, keys ascending, the revenues of a group added in row order
groupby_sum(rows, col) ==
  LET keys == SortedKeys({rows[i][col] : i \in {j \in 1..Len(rows) : ~isna(rows[j][col])}})
      Revenues(k) == Column(SelectSeq(rows, LAMBDA r : r[col] = k), "Revenue")
  IN  [g \in 1..Len(keys) |->
         [c \in {col, "Revenue"} |->
            IF c = col THEN keys[g]
            ELSE Num(GroupSum([i \in 1..Len(Revenues(keys[g])) |-> Revenues(keys[g])[i].n]))]]

\* Date.dt.to_period("M").astype(str): "YYYY-MM"
Pad2(x) == IF x < 10 THEN <<"0">> \o NatToStr(x) ELSE NatToStr(x)
YearOf(d) == d.n \div 10000
MonthOf(d) == (d.n \div 100) % 100
YearMonth(d) == Str(NatToStr(YearOf(d)) \o <<"-">> \o Pad2(MonthOf(d)))

\* mutant: the last of the rows with the largest Revenue
idxmax_last(table) ==
  CHOOSE i \in 1..Len(table) :
    /\ \A j \in 1..Len(table) : table[j]["Revenue"].n <= table[i]["Revenue"].n
    /\ \A j \in (i + 1)..Len(table) : table[j]["Revenue"].n < table[i]["Revenue"].n

\* Series.idxmax() followed by .loc: the first row, in the order of the
\* table, whose Revenue is the largest
idxmax(table) ==
  CHOOSE i \in 1..Len(table) :
    /\ \A j \in 1..Len(table) : table[j]["Revenue"].n <= table[i]["Revenue"].n
    /\ \A j \in 1..(i - 1) : table[j]["Revenue"].n < table[i]["Revenue"].n

\* lines 106-111: (label, revenue) of the best row, ("N/A", 0.0) for an
\* empty table
Best(table, col) ==
  IF table = <<>> THEN [label |-> Str(<<"N", "/", "A">>), revenue |-> 0]
  ELSE [label |-> table[idxmax(table)][col], revenue |-> table[idxmax(table)]["Revenue"].n]

\* build_aggregations(df) run when datetime.now().year is current_year: the
\* bundles it can return (the descending sorts do not fix the order of ties)
build_aggregations(rows, current_year) ==
  LET monthlyRows == [i \in 1..Len(rows) |-> SetCol(rows[i], "YearMonth", YearMonth(rows[i]["Date"]))]
      thisYear == SelectSeq(rows, LAMBDA r : YearOf(r["Date"]) = current_year)
      Floats(rs) == [i \in 1..Len(rs) |-> rs[i]["Revenue"].n]
  IN  {[per_product |-> pp,
        per_salesperson |-> ps,
        monthly |-> mo,
        total_revenue |-> SeriesSum(Floats(rows)),
        ytd_total |-> IF thisYear = <<>> THEN 0 ELSE SeriesSum(Floats(thisYear)),
        best_month |-> Best(mo, "YearMonth"),
        best_product |-> Best(pp, "Product"),
        top_salesperson |-> Best(ps, "Salesperson")] :
          pp \in sort_values(groupby_sum(rows, "Product"), "Revenue", FALSE),
          ps \in sort_values(groupby_sum(rows, "Salesperson"), "Revenue", FALSE),
          mo \in sort_values(groupby_sum(monthlyRows, "YearMonth"), "YearMonth", TRUE)}

(***************************************************************************)
(* Inputs of the pipeline                                                  *)
(***************************************************************************)
Text(chars) == Str(chars)

RawRow(date, product, quantity, price, salesperson, region) ==
  [c \in {"Date", "Product", "Quantity", "Unit Price", "Salesperson", "Region"} |->
     CASE c = "Date" -> date
       [] c = "Product" -> product
       [] c = "Quantity" -> quantity
       [] c = "Unit Price" -> price
       [] c = "Salesperson" -> salesperson
       [] OTHER -> region]

Jan05 == Text(<<"0", "5", "/", "0", "1", "/", "2", "0", "2", "4">>)
Jan20 == Text(<<"2", "0", "/", "0", "1", "/", "2", "0", "2", "4">>)
\* 01/20/2024 is no day-first date: read month first, the same day as Jan20
Jan20us == Text(<<"0", "1", "/", "2", "0", "/", "2", "0", "2", "4">>)
Feb01 == Text(<<"0", "1", "/", "0", "2", "/", "2", "0", "2", "5">>)
NoDate == Text(<<"n", "a">>)
Widget == Text(<<"W">>)
WidgetPadded == Text(<<" ", "W", " ">>)
Gadget == Text(<<"G">>)
Blank == Text(<<" ", " ">>)
Alice == Text(<<"A">>)
Bob == Text(<<"B">>)

\* the rows a DataFrame of the model is made of
RowWidget8 == RawRow(Jan05, WidgetPadded, Num(2), Num(4), Alice, NaN)
RowWidget1 == RawRow(Jan20, Widget, Num(1), Num(1), Bob, NaN)
RowGadget1 == RawRow(Jan20us, Gadget, Num(1), Num(1), Bob, NaN)
RowNegative == RawRow(Feb01, Gadget, Num(-1), Num(4), Alice, NaN)
RowNoProduct == RawRow(Feb01, NaN, Num(1), Num(1), Alice, NaN)
RowNoDate == RawRow(NoDate, Widget, Num(1), Num(1), Bob, NaN)
RowBlank == RawRow(Feb01, Blank, Num(1), Num(4), NaN, NaN)
RowNoPrice == RawRow(Jan05, Gadget, Text(<<"2">>), Text(<<"x">>), Bob, NaN)

RowPool ==
  {RowWidget8, RowWidget1, RowGadget1, RowNegative, RowNoProduct, RowNoDate, RowBlank,
   RowNoPrice}

ColumnPool == {"Date", "Product", "Quantity", "Unit Price", "Salesperson", "Region"}

\* the calendar years datetime.now().year is drawn from
Years == {2024, 2025}

SeqsUpTo(S, n) == UNION {[1..k -> S] : k \in 0..n}

\* pd.read_csv's result: the rows restricted to the columns the file has
DataFrame(cols, rows) ==
  [columns |-> cols, rows |-> [i \in 1..Len(rows) |-> [c \in cols |-> rows[i][c]]]]

DataFrames == {DataFrame(cols, rows) : cols \in SUBSET ColumnPool, rows \in SeqsUpTo(RowPool, MaxRows)}

(***************************************************************************)
(* State                                                                   *)
(***************************************************************************)
VARIABLES
  REPORT_CACHE,   \* token -> [_ts, df_clean, aggs]
  CACHE_LOCK,     \* 0 when free, else the thread holding it
  clock,          \* time.time()
  ticks,          \* advances of the clock so far
  issued,         \* the tokens uuid.uuid4() has returned
  pc,             \* where each thread is in its request
  req,            \* the request each thread is handling and its locals
  stored,         \* history: token -> the bundle put under it
  stale,          \* history: tokens older than the TTL at some sweep
  df,             \* pipeline: the uploaded DataFrame
  stage,          \* pipeline: how far the pipeline has got
  df_clean,       \* pipeline: what validate_and_clean returned or raised
  aggs            \* pipeline: what build_aggregations returned

cacheVars == <<REPORT_CACHE, CACHE_LOCK, clock, ticks, issued, pc, req, stored, stale>>
pipelineVars == <<df, stage, df_clean, aggs>>
vars == <<REPORT_CACHE, CACHE_LOCK, clock, ticks, issued, pc, req, stored, stale,
          df, stage, df_clean, aggs>>

CACHE_TTL_SECONDS == 30 * 60

Procs == 1..NumProcs
Tokens == 1..MaxTokens
NoToken == 0

NoFrame == [error |-> FALSE, missing |-> <<>>, rows |-> <<>>]
NoBest == [label |-> NaN, revenue |-> 0]
NoAggs ==
  [per_product |-> <<>>, per_salesperson |-> <<>>, monthly |-> <<>>, total_revenue |-> 0,
   ytd_total |-> 0, best_month |-> NoBest, best_product |-> NoBest, top_salesperson |-> NoBest]
\* None
NoBundle == [_ts |-> -1, df_clean |-> <<>>, aggs |-> NoAggs]
NoFile == DataFrame({}, <<>>)

(***************************************************************************)
(* Spec: request-handling threads sharing REPORT_CACHE                     *)
(***************************************************************************)
\* the files uploaded in the model
Dec31 == Text(<<"3", "1", "/", "1", "2", "/", "2", "0", "2", "3">>)
GoodUpload == DataFrame(ColumnPool, <<RawRow(Dec31, Widget, Num(1), Num(1), Bob, NaN)>>)
OtherUpload == DataFrame(ColumnPool, <<RawRow(Dec31, Gadget, Num(2), Num(4), Alice, NaN), RowNoDate>>)
NoRowsUpload == DataFrame(ColumnPool, <<RowNegative, RowNoDate>>)
NoColumnsUpload == DataFrame({"Date", "Product", "Region"}, <<RowWidget1>>)
Uploads == {GoodUpload, OtherUpload, NoRowsUpload, NoColumnsUpload}

\* lines 204-226: the early returns before the file is parsed
Rejections == {"no_file_part", "empty_filename", "bad_extension", "unreadable_csv"}

\* a request and the locals of its handler; file is NoFile when the request
\* carries no CSV that pd.read_csv can read
Request(route, method, file, token, now) ==
  [route |-> route, method |-> method, file |-> file, token |-> token,
   now |-> now, df_clean |-> <<>>, aggs |-> NoAggs, bundle |-> NoBundle, outcome |-> "none",
   read_at |-> 0, expect |-> NoBundle]

NoRequest == Request("none", "none", NoFile, NoToken, 0)

PipelineIdle ==
  /\ df = NoFile
  /\ stage = "none"
  /\ df_clean = NoFrame
  /\ aggs = NoAggs

\* lines 25-26: the module is loaded, no request has arrived
CacheInit ==
  /\ REPORT_CACHE = <<>>
  /\ CACHE_LOCK = 0
  /\ clock = 0
  /\ ticks = 0
  /\ issued = {}
  /\ pc = [p \in Procs |-> "idle"]
  /\ req = [p \in Procs |-> NoRequest]
  /\ stored = <<>>
  /\ stale = {}

Init == CacheInit /\ PipelineIdle

\* mutant: an entry exactly CACHE_TTL_SECONDS old is stale already
IsStale_AtTTL(now, v) == now - v._ts >= CACHE_TTL_SECONDS

\* line 34: now - v.get("_ts", 0) > CACHE_TTL_SECONDS
IsStale(now, v) == now - v._ts > CACHE_TTL_SECONDS

\* mutant: the loop stops after the first stale key
PopStale_First(cache, now) ==
  LET staleKeys == {t \in DOMAIN cache : now - cache[t]._ts > CACHE_TTL_SECONDS}
      first == CHOOSE t \in staleKeys : \A u \in staleKeys : t <= u
  IN  IF staleKeys = {} THEN cache ELSE [k \in (DOMAIN cache) \ {first} |-> cache[k]]

\* lines 34-36: the dict after the stale keys are popped
PopStale(cache, now) ==
  [k \in {t \in DOMAIN cache : ~IsStale(now, cache[t])} |-> cache[k]]

\* mutant: the dict is rebuilt with the new entry alone
SetItem_Replace(cache, token, bundle) == [k \in {token} |-> bundle]

\* line 248: REPORT_CACHE[token] = bundle
SetItem(cache, token, bundle) ==
  [k \in (DOMAIN cache) \cup {token} |-> IF k = token THEN bundle ELSE cache[k]]

\* line 287: REPORT_CACHE.get(token)
GetItem(cache, token) == IF token \in DOMAIN cache THEN cache[token] ELSE NoBundle

\* line 246: str(uuid.uuid4()), a token no earlier call returned
uuid4(used) == CHOOSE t \in Tokens \ used : \A u \in Tokens \ used : t <= u

\* mutant: the emptiness test never fires
IsEmpty_Never(rows) == FALSE

\* line 230: df_clean.empty
IsEmpty(rows) == Len(rows) = 0

\* POST requests with a readable file that have not reached line 246 yet
Uploading == {q \in Procs : /\ pc[q] \in {"sweep_lock", "sweep_cs", "body"}
                            /\ req[q].method = "POST"
                            /\ req[q].file # NoFile}

\* the clock moves on, by a second or by the whole time-to-live
Tick(d) ==
  /\ ticks < MaxTicks
  /\ clock' = clock + d
  /\ ticks' = ticks + 1
  /\ UNCHANGED <<REPORT_CACHE, CACHE_LOCK, issued, pc, req, stored, stale>>
  /\ UNCHANGED pipelineVars

\* a request for "/" arrives (line 199) and _cleanup_cache reads the clock
\* (line 32)
StartIndex(p, method, file) ==
  /\ pc[p] = "idle"
  /\ method = "GET" => file = NoFile
  /\ file # NoFile => Cardinality(issued) + Cardinality(Uploading) < MaxTokens
  /\ req' = [req EXCEPT ![p] = Request("index", method, file, NoToken, clock)]
  /\ pc' = [pc EXCEPT ![p] = "sweep_lock"]
  /\ UNCHANGED <<REPORT_CACHE, CACHE_LOCK, clock, ticks, issued, stored, stale>>
  /\ UNCHANGED pipelineVars

\* a request for "/download/<token>" arrives (line 283) and _cleanup_cache
\* reads the clock (line 32)
StartDownload(p, token) ==
  /\ pc[p] = "idle"
  /\ req' = [req EXCEPT ![p] = Request("download", "GET", NoFile, token, clock)]
  /\ pc' = [pc EXCEPT ![p] = "sweep_lock"]
  /\ UNCHANGED <<REPORT_CACHE, CACHE_LOCK, clock, ticks, issued, stored, stale>>
  /\ UNCHANGED pipelineVars

\* _cleanup_cache, line 33: with CACHE_LOCK
SweepAcquire(p) ==
  /\ pc[p] = "sweep_lock"
  /\ CACHE_LOCK = 0
  /\ CACHE_LOCK' = p
  /\ pc' = [pc EXCEPT ![p] = "sweep_cs"]
  /\ UNCHANGED <<REPORT_CACHE, clock, ticks, issued, req, stored, stale>>
  /\ UNCHANGED pipelineVars

\* _cleanup_cache, lines 34-36, and the release of the lock; its local now
\* is gone when it returns
SweepDelete(p) ==
  /\ pc[p] = "sweep_cs"
  /\ REPORT_CACHE' = PopStale(REPORT_CACHE, req[p].now)
  /\ CACHE_LOCK' = 0
  /\ stale' = stale \cup {t \in DOMAIN stored : req[p].now - stored[t]._ts > 30 * 60}
  /\ pc' = [pc EXCEPT ![p] = IF req[p].route = "index" THEN "body" ELSE "get_lock"]
  /\ req' = [req EXCEPT ![p].now = 0]
  /\ UNCHANGED <<clock, ticks, issued, stored>>
  /\ UNCHANGED pipelineVars

\* index, line 280: a GET renders the empty form
IndexGet(p) ==
  /\ pc[p] = "body"
  /\ req[p].method = "GET"
  /\ req' = [req EXCEPT ![p].outcome = "form"]
  /\ pc' = [pc EXCEPT ![p] = "done"]
  /\ UNCHANGED <<REPORT_CACHE, CACHE_LOCK, clock, ticks, issued, stored, stale>>
  /\ UNCHANGED pipelineVars

\* index, lines 204-226: no file, no name, wrong extension, unreadable CSV
IndexRejected(p) ==
  /\ pc[p] = "body"
  /\ req[p].method = "POST"
  /\ req[p].file = NoFile
  /\ \E reason \in Rejections : req' = [req EXCEPT ![p].outcome = reason]
  /\ pc' = [pc EXCEPT ![p] = "done"]
  /\ UNCHANGED <<REPORT_CACHE, CACHE_LOCK, clock, ticks, issued, stored, stale>>
  /\ UNCHANGED pipelineVars

\* index, lines 228-235: validate_and_clean raises, or nothing is left
IndexInvalid(p) ==
  /\ pc[p] = "body"
  /\ req[p].method = "POST"
  /\ req[p].file # NoFile
  /\ \E res \in validate_and_clean(req[p].file) :
       /\ res.error \/ IsEmpty(res.rows)
       /\ req' = [req EXCEPT ![p].outcome =
                    IF res.error THEN "invalid_format" ELSE "no_valid_rows"]
  /\ pc' = [pc EXCEPT ![p] = "done"]
  /\ UNCHANGED <<REPORT_CACHE, CACHE_LOCK, clock, ticks, issued, stored, stale>>
  /\ UNCHANGED pipelineVars

\* index, lines 228-246: the frame is cleaned and aggregated, a token drawn
IndexProcess(p) ==
  /\ pc[p] = "body"
  /\ req[p].method = "POST"
  /\ req[p].file # NoFile
  /\ \E res \in validate_and_clean(req[p].file) :
       /\ ~res.error
       /\ ~IsEmpty(res.rows)
       /\ \E year \in Years : \E a \in build_aggregations(res.rows, year) :
            /\ req' = [req EXCEPT ![p].df_clean = res.rows, ![p].aggs = a,
                                  ![p].token = uuid4(issued)]
            /\ issued' = issued \cup {uuid4(issued)}
  /\ pc' = [pc EXCEPT ![p] = "put_lock"]
  /\ UNCHANGED <<REPORT_CACHE, CACHE_LOCK, clock, ticks, stored, stale>>
  /\ UNCHANGED pipelineVars

\* index, line 247: with CACHE_LOCK
PutAcquire(p) ==
  /\ pc[p] = "put_lock"
  /\ CACHE_LOCK = 0
  /\ CACHE_LOCK' = p
  /\ pc' = [pc EXCEPT ![p] = "put_cs"]
  /\ UNCHANGED <<REPORT_CACHE, clock, ticks, issued, req, stored, stale>>
  /\ UNCHANGED pipelineVars

\* index, lines 248-277: the bundle is stored, the lock released, the page
\* with the token rendered
Put(p) ==
  LET bundle == [_ts |-> clock, df_clean |-> req[p].df_clean, aggs |-> req[p].aggs]
  IN  /\ pc[p] = "put_cs"
      /\ REPORT_CACHE' = SetItem(REPORT_CACHE, req[p].token, bundle)
      /\ CACHE_LOCK' = 0
      /\ stored' = [k \in (DOMAIN stored) \cup {req[p].token} |->
                      IF k = req[p].token THEN bundle ELSE stored[k]]
      /\ req' = [req EXCEPT ![p].outcome = "report"]
      /\ pc' = [pc EXCEPT ![p] = "done"]
      /\ UNCHANGED <<clock, ticks, issued, stale>>
      /\ UNCHANGED pipelineVars

\* download_report, line 286: with CACHE_LOCK
GetAcquire(p) ==
  /\ pc[p] = "get_lock"
  /\ CACHE_LOCK = 0
  /\ CACHE_LOCK' = p
  /\ pc' = [pc EXCEPT ![p] = "get_cs"]
  /\ UNCHANGED <<REPORT_CACHE, clock, ticks, issued, req, stored, stale>>
  /\ UNCHANGED pipelineVars

\* download_report, lines 287-301: the lookup, the release of the lock, and
\* either the "session expired" redirect or the workbook of the bundle
Get(p) ==
  LET bundle == GetItem(REPORT_CACHE, req[p].token)
  IN  /\ pc[p] = "get_cs"
      /\ CACHE_LOCK' = 0
      /\ req' = [req EXCEPT ![p].bundle = bundle,
                            ![p].outcome = IF bundle = NoBundle THEN "expired" ELSE "xlsx",
                            ![p].read_at = clock,
                            ![p].expect = IF req[p].token \in DOMAIN stored
                                          THEN stored[req[p].token] ELSE NoBundle]
      /\ pc' = [pc EXCEPT ![p] = "done"]
      /\ UNCHANGED <<REPORT_CACHE, clock, ticks, issued, stored, stale>>
      /\ UNCHANGED pipelineVars

\* the response is sent; the thread takes the next request
Finish(p) ==
  /\ pc[p] = "done"
  /\ req' = [req EXCEPT ![p] = NoRequest]
  /\ pc' = [pc EXCEPT ![p] = "idle"]
  /\ UNCHANGED <<REPORT_CACHE, CACHE_LOCK, clock, ticks, issued, stored, stale>>
  /\ UNCHANGED pipelineVars

Next ==
  \/ \E d \in {1, CACHE_TTL_SECONDS} : Tick(d)
  \/ \E p \in Procs :
       \/ \E method \in {"GET", "POST"}, file \in Uploads \cup {NoFile} :
            StartIndex(p, method, file)
       \/ \E token \in Tokens : StartDownload(p, token)
       \/ SweepAcquire(p)
       \/ SweepDelete(p)
       \/ IndexGet(p)
       \/ IndexRejected(p)
       \/ IndexInvalid(p)
       \/ IndexProcess(p)
       \/ PutAcquire(p)
       \/ Put(p)
       \/ GetAcquire(p)
       \/ Get(p)
       \/ Finish(p)

Spec == Init /\ [][Next]_vars

(***************************************************************************)
(* SpecPipeline: validate_and_clean, then build_aggregations as index      *)
(* calls them (lines 228-238), on every DataFrame of the model             *)
(***************************************************************************)
PipelineInit ==
  /\ CacheInit
  /\ df \in DataFrames
  /\ stage = "uploaded"
  /\ df_clean = NoFrame
  /\ aggs = NoAggs

\* lines 228-235
Validate ==
  /\ stage = "uploaded"
  /\ \E res \in validate_and_clean(df) :
       /\ df_clean' = res
       /\ stage' = IF res.error THEN "invalid"
                   ELSE IF IsEmpty(res.rows) THEN "empty" ELSE "cleaned"
  /\ UNCHANGED <<df, aggs>>
  /\ UNCHANGED cacheVars

\* line 238
Aggregate ==
  /\ stage = "cleaned"
  /\ \E year \in Years : \E a \in build_aggregations(df_clean.rows, year) : aggs' = a
  /\ stage' = "aggregated"
  /\ UNCHANGED <<df, df_clean>>
  /\ UNCHANGED cacheVars

PipelineNext == Validate \/ Aggregate

SpecPipeline == PipelineInit /\ [][PipelineNext]_vars

(***************************************************************************)
(* Properties of the pipeline (SpecPipeline)                               *)
(***************************************************************************)
Range(f) == {f[i] : i \in DOMAIN f}

Cleaned == stage \in {"empty", "cleaned", "aggregated"}

\* the retention rule: date, quantity and unit price coerce to a value,
\* product and salesperson are present in the input, quantity and unit price
\* are not negative
RetentionRule(r) ==
  /\ ~isna(to_datetime(r["Date"]))
  /\ ~isna(to_numeric(r["Quantity"]))
  /\ ~isna(to_numeric(r["Unit Price"]))
  /\ ~isna(r["Product"])
  /\ ~isna(r["Salesperson"])
  /\ to_numeric(r["Quantity"]).n >= 0
  /\ to_numeric(r["Unit Price"]).n >= 0

\* C4: every row in the output of validate_and_clean is the cleaned form of
\* an input row that satisfies the retention rule, each such input row
\* accounting for at most one output row.  (Fails: a row whose product or
\* salesperson is absent survives, its name the text "nan".)
C4_OnlyValidRowsSurvive ==
  Cleaned =>
    LET valid == {i \in 1..Len(df.rows) : RetentionRule(df.rows[i])}
        n == Len(df_clean.rows)
    IN  \E f \in [1..n -> valid] :
          /\ \A i, j \in 1..n : f[i] = f[j] => i = j
          /\ \A i \in 1..n : df_clean.rows[i] = WithRevenue(Coerce(df.rows[f[i]]))

\* rows in date order, a row placed after the rows of the same date that
\* precede it in the input
RECURSIVE StableByDate(_)
StableByDate(rows) ==
  IF rows = <<>> THEN <<>>
  ELSE LET last == rows[Len(rows)]
           init == StableByDate(SubSeq(rows, 1, Len(rows) - 1))
           before == SelectSeq(init, LAMBDA r : r["Date"].n <= last["Date"].n)
           after == SelectSeq(init, LAMBDA r : r["Date"].n > last["Date"].n)
       IN  before \o <<last>> \o after

\* C5: the rows validate_and_clean returns are in non-decreasing order of
\* date, and rows of the same date keep their input order.  (Fails: the sort
\* is pandas' default quicksort, which does not fix the order of equal dates.)
C5_SortedAndStable ==
  stage \in {"cleaned", "aggregated"} => df_clean.rows = StableByDate(CleanRows(df))

\* C6: a frame lacking a required column makes validate_and_clean raise an
\* error that names exactly the missing required columns, and nothing is
\* cleaned; a frame with all five raises no such error.
C6_SchemaErrorNamesMissing ==
  LET required == {"Date", "Product", "Quantity", "Unit Price", "Salesperson"}
      absent == required \ df.columns
  IN  stage # "uploaded" =>
        /\ absent # {} =>
             /\ stage = "invalid"
             /\ df_clean.error
             /\ Range(df_clean.missing) = absent
             /\ Len(df_clean.missing) = Cardinality(absent)
             /\ df_clean.rows = <<>>
        /\ absent = {} => ~df_clean.error /\ stage # "invalid"

\* C6 witness: a frame with rows and an extra column lacks two required
\* columns and is rejected
C6_Witness ==
  /\ stage = "invalid"
  /\ Len(df_clean.missing) = 2
  /\ "Region" \in df.columns
  /\ Len(df.rows) = MaxRows

Revenues(table) == [i \in 1..Len(table) |-> table[i]["Revenue"].n]

RECURSIVE ExactSum(_)
ExactSum(xs) == IF xs = <<>> THEN 0 ELSE xs[1] + ExactSum(Tail(xs))

SumsAgree ==
  /\ SeriesSum(Revenues(aggs.per_product)) = aggs.total_revenue
  /\ SeriesSum(Revenues(aggs.per_salesperson)) = aggs.total_revenue
  /\ SeriesSum(Revenues(aggs.monthly)) = aggs.total_revenue

\* C7 as claimed: the per_product sums, the per_salesperson sums and the
\* monthly sums each add up to total_revenue.  (Fails: the sums are float
\* sums taken in different orders, and rounding makes them differ.)
C7_SumsEqual == stage = "aggregated" => SumsAgree

\* C7 amended: when no addition rounds (the exact total of the revenues is
\* an integer the float type holds exactly), the per_product sums, the
\* per_salesperson sums and the monthly sums each add up to total_revenue,
\* which is the exact total of the rows' revenues.
C7_SumsEqualWhenExact ==
  (stage = "aggregated" /\ ExactSum(Revenues(df_clean.rows)) <= Pow2(MantBits)) =>
    SumsAgree /\ aggs.total_revenue = ExactSum(Revenues(df_clean.rows))

\* C7 witness: three rows, two of one product, two salespersons, no rounding
C7_Witness ==
  /\ stage = "aggregated"
  /\ Len(df_clean.rows) = 3
  /\ ExactSum(Revenues(df_clean.rows)) <= Pow2(MantBits)
  /\ Len(aggs.per_product) = 2
  /\ Len(aggs.per_salesperson) = 2

FirstMax(table, col, best) ==
  \E i \in 1..Len(table) :
    /\ table[i][col] = best.label
    /\ table[i]["Revenue"].n = best.revenue
    /\ \A j \in 1..Len(table) : table[j]["Revenue"].n <= best.revenue
    /\ \A j \in 1..(i - 1) : table[j]["Revenue"].n < best.revenue

\* C10: best_month, best_product and top_salesperson are each the first row
\* of largest revenue of their table, in the order the table is returned in;
\* best_product and top_salesperson are the first rows of per_product and
\* per_salesperson.
C10_BestIsFirstMax ==
  stage = "aggregated" =>
    /\ FirstMax(aggs.monthly, "YearMonth", aggs.best_month)
    /\ FirstMax(aggs.per_product, "Product", aggs.best_product)
    /\ FirstMax(aggs.per_salesperson, "Salesperson", aggs.top_salesperson)
    /\ aggs.best_product.label = aggs.per_product[1]["Product"]
    /\ aggs.best_product.revenue = aggs.per_product[1]["Revenue"].n
    /\ aggs.top_salesperson.label = aggs.per_salesperson[1]["Salesperson"]
    /\ aggs.top_salesperson.revenue = aggs.per_salesperson[1]["Revenue"].n

\* C10 witness: two products, two salespersons and two months tie for the
\* largest revenue
C10_Witness ==
  /\ stage = "aggregated"
  /\ Len(aggs.per_product) >= 2
  /\ aggs.per_product[1]["Revenue"] = aggs.per_product[2]["Revenue"]
  /\ Len(aggs.per_salesperson) >= 2
  /\ aggs.per_salesperson[1]["Revenue"] = aggs.per_salesperson[2]["Revenue"]
  /\ Len(aggs.monthly) >= 2
  /\ aggs.monthly[1]["Revenue"] = aggs.monthly[2]["Revenue"]

(***************************************************************************)
(* Properties of the cache (Spec)                                          *)
(***************************************************************************)
Downloaded(p) == pc[p] = "done" /\ req[p].route = "download"

\* C1: a download of a token that a put has returned, looked up while the
\* entry is no older than the time-to-live, gets the bundle that was stored
\* under the token, whatever other requests did in between and however often
\* the token is read.
C1_GetReturnsStoredBundle ==
  \A p \in Procs :
    (/\ Downloaded(p)
     /\ req[p].expect # NoBundle
     /\ req[p].read_at - req[p].expect._ts <= 30 * 60) =>
       /\ req[p].bundle = req[p].expect
       /\ req[p].outcome = "xlsx"

\* C1 witness: two downloads of one token both got its bundle, one of them
\* when the entry was exactly as old as the time-to-live, while a second
\* token had been put
C1_Witness ==
  \E p, q \in Procs :
    /\ p # q
    /\ Downloaded(p) /\ Downloaded(q)
    /\ req[p].token = req[q].token
    /\ req[p].bundle # NoBundle
    /\ req[q].bundle = req[p].bundle
    /\ req[p].read_at - req[p].bundle._ts = 30 * 60
    /\ Cardinality(DOMAIN stored) = 2

\* C2: a download never gets a bundle that is older than the time-to-live at
\* the moment of the lookup.  (Fails: the age is tested by the sweep, against
\* the clock value the sweep read, and not at the lookup.)
C2_NeverReturnsExpired ==
  \A p \in Procs :
    (Downloaded(p) /\ req[p].bundle # NoBundle) =>
      req[p].read_at - req[p].bundle._ts <= 30 * 60

\* C3: no update is lost: the cache holds exactly the bundles that were put
\* and were older than the time-to-live at no sweep, each as it was put.
C3_NoLostUpdate ==
  REPORT_CACHE = [t \in (DOMAIN stored) \ stale |-> stored[t]]

\* C3 witness: a sweep has removed a stale entry, and a later sweep holds
\* the lock while the cache has an entry that was put after that sweep read
\* the clock
C3_Witness ==
  /\ stale # {}
  /\ \E p \in Procs :
       /\ pc[p] = "sweep_cs"
       /\ req[p].now > 30 * 60
       /\ \E t \in DOMAIN REPORT_CACHE : REPORT_CACHE[t]._ts >= req[p].now

Uploaded(p) ==
  /\ pc[p] = "done"
  /\ req[p].route = "index"
  /\ req[p].method = "POST"
  /\ req[p].file # NoFile

LacksColumn(file) ==
  \E c \in {"Date", "Product", "Quantity", "Unit Price", "Salesperson"} : c \notin file.columns

\* C8: an upload that fails schema validation ends "invalid_format", one
\* whose cleaning leaves no row ends "no_valid_rows"; neither draws a token,
\* and no entry of the cache holds an empty frame: only uploads that were
\* processed to the end have put one.
C8_FailedUploadAddsNothing ==
  /\ \A p \in Procs :
       Uploaded(p) =>
         /\ LacksColumn(req[p].file) =>
              req[p].outcome = "invalid_format" /\ req[p].token = NoToken
         /\ (~LacksColumn(req[p].file) /\ CleanRows(req[p].file) = <<>>) =>
              req[p].outcome = "no_valid_rows" /\ req[p].token = NoToken
         /\ req[p].token = NoToken => req[p].outcome # "report"
  /\ \A t \in DOMAIN stored : stored[t].df_clean # <<>>
  /\ DOMAIN REPORT_CACHE \subseteq issued

\* C8 witness: with a report in the cache, one upload has ended
\* "invalid_format" and another "no_valid_rows", and the cache is as it was
C8_Witness ==
  /\ Cardinality(DOMAIN REPORT_CACHE) = 1
  /\ Cardinality(issued) = 1
  /\ \E p, q \in Procs :
       /\ Uploaded(p) /\ req[p].outcome = "invalid_format"
       /\ Uploaded(q) /\ req[q].outcome = "no_valid_rows"

\* C9: a sweep leaves all and only the entries that are no older than the
\* time-to-live at the clock value it read, and a second sweep at that clock
\* value would leave the cache as the first did.
C9_SweepIdempotent ==
  [][\A p \in Procs :
       (pc[p] = "sweep_cs" /\ pc'[p] # "sweep_cs") =>
         /\ REPORT_CACHE' =
              [t \in {k \in DOMAIN REPORT_CACHE :
                        req[p].now - REPORT_CACHE[k]._ts <= 30 * 60} |-> REPORT_CACHE[t]]
         /\ PopStale(REPORT_CACHE', req[p].now) = REPORT_CACHE']_vars

\* C9 witness: a sweep has just removed one entry and left the other
C9_Witness ==
  \E p \in Procs :
    /\ pc[p] \in {"body", "get_lock"}
    /\ Cardinality(stale) = 1
    /\ Cardinality(DOMAIN REPORT_CACHE) = 1
    /\ \A t \in DOMAIN REPORT_CACHE : clock - REPORT_CACHE[t]._ts = 30 * 60

====
